---- MODULE Spec2Model ----
(***************************************************************************)
(* A model of build-skia.py: SkiaBuildScript.run() as a sequential state   *)
(* machine.  One action per method called from run(); the result of every  *)
(* external process (git, git-sync-deps, powershell, gn, ninja, lipo,      *)
(* libtool, xcodebuild) is an input chosen with \E.                        *)
(*                                                                         *)
(* The flag text passed to gn is modelled as the sequence of its           *)
(* assignments <<key, value>>, in the order the code appends them; blank   *)
(* lines, indentation and quoting are not represented.                     *)
(***************************************************************************)
EXTENDS Integers, Sequences, FiniteSets, TLC

VARIABLES
    args,          \* the parsed command line: [platform, config, archs]
    host,          \* the host: [win, env_arm64, wmi_arm64, fresh]
    platform,      \* self.platform
    config,        \* self.config
    archs,         \* self.archs
    xcframework,   \* self.xcframework
    pc,            \* position of run()
    i,             \* index of the for-loop over self.archs (1-based)
    exit_code,     \* exit code of the process, NoExit while it runs
    calls,         \* the steps and external processes so far, in order
    gn_calls,      \* every generate_gn_args call: inputs and flag text
    tmp_dirs,      \* existing OutputTrees, by name
    tmp_files,     \* files in the OutputTrees: <<OutputTree name, lib>>
    lib_files,     \* files in the library dirs: <<platform, config, archdir, lib>>
    lib_dirs,      \* existing library dirs: <<platform, config, archdir>>
    unbuilt,       \* the libraries ninja leaves out for the platform being built
    src_tree,      \* the files of the Skia checkout: paths below SKIA_SRC_DIR
    include_files, \* the files below BASE_DIR/include: paths below it
    summary,       \* gn_args.txt: None, or its lines after the header
    dawn           \* apply_dawn_ios_visionos.py: the four Dawn files and its run

vars == <<args, host, platform, config, archs, xcframework, pc, i, exit_code,
          calls, gn_calls, tmp_dirs, tmp_files, lib_files, lib_dirs, unbuilt,
          src_tree, include_files, summary, dawn>>

----------------------------------------------------------------------------
(* Bounds of the model *)

\* longest -archs list drawn as input
MaxArchs == 2

\* most libraries that a successful ninja leaves unbuilt
MaxMissing == 1

\* most files of the Skia checkout drawn as input of package_headers
MaxFiles == 3

----------------------------------------------------------------------------
(* Configuration tables *)

NoExit == 0 - 1

None == "None"

\* argparse choices of the positional argument
PlatformChoices == {"mac", "ios", "win", "wasm", "xcframework"}

ConfigChoices == {"Debug", "Release"}

\* architecture names a caller may pass in -archs
ArchNames == {"x86_64", "arm64", "universal", "x64", "Win32", "wasm32"}

LIBS == [
    mac  |-> <<"libskia.a", "libskottie.a", "libskshaper.a", "libsksg.a",
               "libskparagraph.a", "libsvg.a", "libskunicode_core.a",
               "libskunicode_icu.a">>,
    ios  |-> <<"libskia.a", "libskottie.a", "libsksg.a", "libskshaper.a",
               "libskparagraph.a", "libsvg.a", "libskunicode_core.a",
               "libskunicode_icu.a">>,
    win  |-> <<"skia.lib", "skottie.lib", "sksg.lib", "skshaper.lib",
               "skparagraph.lib", "svg.lib", "skunicode_core.lib",
               "skunicode_icu.lib">>,
    wasm |-> <<"libskia.a", "libskottie.a", "libskshaper.a", "libsksg.a",
               "libskparagraph.a", "libsvg.a", "libskunicode_core.a",
               "libskunicode_icu.a">> ]

\* a path is the sequence of its segments: "modules/skottie" below
\* SKIA_SRC_DIR is <<"modules", "skottie">>
PACKAGE_DIRS == <<
    <<"include">>,
    <<"modules", "skottie">>,
    <<"modules", "skparagraph">>,
    <<"modules", "skshaper">>,
    <<"modules", "skresources">>,
    <<"modules", "skunicode">>,
    <<"modules", "skcms">>,
    <<"modules", "svg">>,
    <<"src", "core">>,
    <<"src", "base">>,
    <<"src", "utils">>,
    <<"src", "xml">> >>

DONT_PACKAGE_none == <<>>

DONT_PACKAGE == <<"android">>

BASIC_GN_ARGS == <<
    <<"cc", "clang">>,
    <<"cxx", "clang++">> >>

RELEASE_GN_ARGS == <<
    <<"skia_use_system_libjpeg_turbo", "false">>,
    <<"skia_use_system_libpng", "false">>,
    <<"skia_use_system_zlib", "false">>,
    <<"skia_use_system_expat", "false">>,
    <<"skia_use_system_icu", "false">>,
    <<"skia_use_system_harfbuzz", "false">>,
    <<"skia_use_libwebp_decode", "false">>,
    <<"skia_use_libwebp_encode", "false">>,
    <<"skia_use_xps", "false">>,
    <<"skia_use_dng_sdk", "false">>,
    <<"skia_use_expat", "true">>,
    <<"skia_use_gl", "true">>,
    <<"skia_use_icu", "true">>,
    <<"skia_use_libgrapheme", "false">>,
    <<"skia_enable_graphite", "true">>,
    <<"skia_enable_svg", "true">>,
    <<"skia_enable_skottie", "true">>,
    <<"skia_enable_pdf", "false">>,
    <<"skia_enable_gpu", "true">>,
    <<"skia_enable_skparagraph", "true">> >>

PLATFORM_GN_ARGS == [
    mac |-> <<
        <<"skia_use_metal", "true">>,
        <<"skia_use_dawn", "true">>,
        <<"target_os", "mac">>,
        <<"extra_cflags", "[-mmacosx-version-min=10.15]">>,
        <<"extra_asmflags", "[-mmacosx-version-min=10.15]">>,
        <<"extra_cflags_c", "[-Wno-error]">> >>,
    ios |-> <<
        <<"skia_use_metal", "true">>,
        <<"target_os", "ios">>,
        <<"skia_ios_use_signing", "false">>,
        <<"extra_cflags",
          "[-miphoneos-version-min=13.0, -I../../../src/skia/third_party/externals/expat/lib]">>,
        <<"extra_cflags_c", "[-Wno-error]">> >>,
    win |-> <<
        <<"skia_use_dawn", "true">>,
        <<"skia_use_direct3d", "true">>,
        <<"is_trivial_abi", "false">> >>,
    wasm |-> <<
        <<"target_os", "wasm">>,
        <<"is_component_build", "false">>,
        <<"is_trivial_abi", "true">>,
        <<"werror", "true">>,
        <<"skia_use_angle", "false">>,
        <<"skia_use_dng_sdk", "false">>,
        <<"skia_use_webgl", "true">>,
        <<"skia_use_webgpu", "true">>,
        <<"skia_use_expat", "false">>,
        <<"skia_use_fontconfig", "false">>,
        <<"skia_use_freetype", "true">>,
        <<"skia_use_libheif", "false">>,
        <<"skia_use_libjpeg_turbo_decode", "true">>,
        <<"skia_use_libjpeg_turbo_encode", "false">>,
        <<"skia_use_no_jpeg_encode", "true">>,
        <<"skia_use_libpng_decode", "true">>,
        <<"skia_use_libpng_encode", "true">>,
        <<"skia_use_no_png_encode", "false">>,
        <<"skia_use_libwebp_decode", "true">>,
        <<"skia_use_libwebp_encode", "false">>,
        <<"skia_use_no_webp_encode", "true">>,
        <<"skia_use_lua", "false">>,
        <<"skia_use_piex", "false">>,
        <<"skia_use_system_freetype2", "false">>,
        <<"skia_use_system_libwebp", "false">>,
        <<"skia_use_vulkan", "false">>,
        <<"skia_use_wuffs", "true">>,
        <<"skia_use_zlib", "true">>,
        <<"skia_enable_ganesh", "true">>,
        <<"skia_enable_graphite", "false">>,
        <<"skia_build_for_debugger", "false">>,
        <<"skia_enable_skottie", "false">>,
        <<"skia_use_client_icu", "false">>,
        <<"skia_use_icu4x", "false">>,
        <<"skia_use_harfbuzz", "true">>,
        <<"skia_use_system_harfbuzz", "false">>,
        <<"skia_enable_fontmgr_custom_directory", "false">>,
        <<"skia_enable_fontmgr_custom_embedded", "true">>,
        <<"skia_enable_fontmgr_custom_empty", "true">>,
        <<"skia_use_freetype_woff2", "true">>,
        <<"skia_enable_skshaper", "true">> >> ]

----------------------------------------------------------------------------
(* Helpers *)

Range(s) == { s[k] : k \in 1..Len(s) }

\* the sequences over S of length 0..n
SeqsUpTo(S, n) == UNION { [1..k -> S] : k \in 0..n }

\* one entry of the log of steps and external processes; inputs are the
\* file or target names on the command line of a process (for move_libs, the
\* names it looks for), dir is the OutputTree a step works in and dest the
\* library directory it writes to
EvAt(op, plat, arch, lib, ok, inputs, dir, dest) ==
    [op |-> op, platform |-> plat, arch |-> arch, lib |-> lib, ok |-> ok,
     inputs |-> inputs, dir |-> dir, dest |-> dest]

EvIn(op, plat, arch, lib, ok, inputs) ==
    EvAt(op, plat, arch, lib, ok, inputs, "", <<>>)

Ev(op, plat, arch, lib, ok) == EvIn(op, plat, arch, lib, ok, <<>>)

\* str.endswith
endswith(s, suffix) ==
    /\ Len(s) >= Len(suffix)
    /\ SubSeq(s, Len(s) - Len(suffix) + 1, Len(s)) = suffix

\* the operations of the log that start an external process
ExternalOps == {"powershell", "git clone depot_tools", "git clone", "git fetch",
                "git checkout", "git reset", "git-sync-deps", "gn", "ninja",
                "lipo", "libtool", "xcodebuild"}

\* the positions of the log entries of operation op
Positions(op) == { k \in 1..Len(calls) : calls[k].op = op }

----------------------------------------------------------------------------
(* Pure functions of the script *)

valid_archs == [
    mac  |-> <<"x86_64", "arm64", "universal">>,
    ios  |-> <<"x86_64", "arm64">>,
    win  |-> <<"x64", "Win32", "arm64">>,
    wasm |-> <<"wasm32">> ]

\* validate_archs: the positions of the architectures it rejects; the loop
\* exits the process at the first of them
validate_archs_first_only(plat, as) ==
    { k \in 1..Len(as) : k = 1 /\ as[k] \notin Range(valid_archs[plat]) }

validate_archs(plat, as) ==
    { k \in 1..Len(as) : as[k] \notin Range(valid_archs[plat]) }

Min(S) == CHOOSE m \in S : \A n \in S : m <= n

get_default_archs(plat, is_arm64) ==
    CASE plat = "mac"  -> <<"universal">>
      [] plat = "ios"  -> <<"x86_64", "arm64">>
      [] plat = "win"  -> IF is_arm64 THEN <<"arm64">> ELSE <<"x64">>
      [] plat = "wasm" -> <<"wasm32">>

\* is_arm64_host starts powershell only on a Windows host whose environment
\* variables do not already say ARM64
RunsPowershell == host.win /\ ~host.env_arm64

\* is_arm64_host: host.wmi_arm64 is whether powershell prints "true" for the
\* processor query (FALSE also when powershell cannot be started: the
\* exception is swallowed)
is_arm64_host ==
    IF host.win THEN (IF host.env_arm64 THEN TRUE ELSE host.wmi_arm64) ELSE FALSE

\* the powershell process of a step that calls is_arm64_host, or not
PowershellCall(called) ==
    IF called /\ RunsPowershell THEN <<Ev("powershell", "", "", "", TRUE)>> ELSE <<>>

\* generate_gn_args, the part chosen by the configuration
ConfigArgs_always_release(plat, cfg) ==
    PLATFORM_GN_ARGS[plat] \o RELEASE_GN_ARGS
        \o << <<"is_debug", "false">>, <<"is_official_build", "true">> >>

ConfigArgs(plat, cfg) ==
    IF cfg = "Debug"
    THEN << <<"is_debug", "true">> >>
    ELSE PLATFORM_GN_ARGS[plat] \o RELEASE_GN_ARGS
            \o << <<"is_debug", "false">>, <<"is_official_build", "true">> >>

\* generate_gn_args, the target_cpu value of each platform
TargetCpu_ios_passthrough(plat, arch) ==
    CASE plat = "mac"  -> arch
      [] plat = "ios"  -> arch
      [] plat = "win"  -> IF arch = "arm64" THEN "arm64"
                          ELSE IF arch = "Win32" THEN "x86" ELSE "x64"
      [] plat = "wasm" -> "wasm"

TargetCpu(plat, arch) ==
    CASE plat = "mac"  -> arch
      [] plat = "ios"  -> IF arch = "arm64" THEN "arm64" ELSE "x64"
      [] plat = "win"  -> IF arch = "arm64" THEN "arm64"
                          ELSE IF arch = "Win32" THEN "x86" ELSE "x64"
      [] plat = "wasm" -> "wasm"

WinArm64TargetArgs == <<
    <<"skia_use_sse2", "false">>,
    <<"skia_use_sse3", "false">>,
    <<"skia_use_ssse3", "false">>,
    <<"skia_use_sse41", "false">>,
    <<"skia_use_sse42", "false">>,
    <<"skia_use_avx", "false">>,
    <<"skia_use_avx2", "false">> >>

WinArm64HostArgs == <<
    <<"skia_enable_ssse3", "false">>,
    <<"skia_enable_sse42", "false">>,
    <<"skia_enable_avx", "false">>,
    <<"skia_enable_avx2", "false">>,
    <<"skia_enable_hsw", "false">>,
    <<"skia_enable_f16c", "false">>,
    <<"skia_enable_popcnt", "false">> >>

\* generate_gn_args on win, the flags that follow target_cpu
WinCpuArgs_host_first(arch, is_arm64) ==
    IF is_arm64 THEN WinArm64HostArgs
    ELSE IF arch = "arm64" THEN WinArm64TargetArgs ELSE <<>>

WinCpuArgs(arch, is_arm64) ==
    IF arch = "arm64" THEN WinArm64TargetArgs
    ELSE IF is_arm64 /\ arch # "arm64" THEN WinArm64HostArgs ELSE <<>>

\* generate_gn_args, the per-platform part appended after ConfigArgs
PlatformArgs(plat, cfg, arch, is_arm64) ==
    IF plat = "win"
    THEN << <<"extra_cflags", IF cfg = "Debug" THEN "[/MTd]" ELSE "[/MT]">>,
            <<"target_cpu", TargetCpu(plat, arch)>> >>
         \o WinCpuArgs(arch, is_arm64)
         \o << <<"clang_win", "C:\\Program Files\\LLVM">> >>
    ELSE << <<"target_cpu", TargetCpu(plat, arch)>> >>

\* generate_gn_args, the flag text it passes to gn gen
gn_args(plat, cfg, arch, is_arm64) ==
    BASIC_GN_ARGS \o ConfigArgs(plat, cfg) \o PlatformArgs(plat, cfg, arch, is_arm64)

\* the directory gn gen, ninja and move_libs work in, below TMP_DIR:
\* f"{self.platform}_{self.config}_{arch}"
output_dir_per_platform(plat, cfg, arch) == plat \o "_" \o cfg

output_dir(plat, cfg, arch) == plat \o "_" \o cfg \o "_" \o arch

\* package_headers: the files os.walk(src_path) yields, i.e. those below
\* the directory `dir` that are reached through no directory of DONT_PACKAGE
\* (dirs[:] is pruned); nothing when `dir` is absent or is itself a file
os_walk(tree, dir) ==
    { f \in tree :
        /\ Len(dir) < Len(f)
        /\ SubSeq(f, 1, Len(dir)) = dir
        /\ \A k \in (Len(dir) + 1)..(Len(f) - 1) : f[k] \notin Range(DONT_PACKAGE) }

\* package_headers: file.endswith('.h')
is_header_any(file) == TRUE

is_header(file) == endswith(file, ".h")

\* package_headers: the second test, on the parts of the path relative to
\* SKIA_SRC_DIR (the file name is one of the parts)
in_excluded_directory(rel_path) ==
    \E k \in 1..Len(DONT_PACKAGE) : DONT_PACKAGE[k] \in Range(rel_path)

\* package_headers: the paths, relative to SKIA_SRC_DIR, of the files copied;
\* each is written to dest_dir / rel_path
package_headers(tree) ==
    UNION { { f \in os_walk(tree, PACKAGE_DIRS[n]) :
                is_header(f[Len(f)]) /\ ~in_excluded_directory(f) } :
            n \in 1..Len(PACKAGE_DIRS) }

\* generate_gn_args_summary: the flag text written to gn_args.txt for `arch`
generate_gn_args_summary(plat, cfg, arch) ==
    BASIC_GN_ARGS \o PLATFORM_GN_ARGS[plat] \o RELEASE_GN_ARGS
        \o << <<"is_debug", IF cfg = "Debug" THEN "true" ELSE "false">>,
               <<"is_official_build", IF cfg = "Debug" THEN "false" ELSE "true">>,
               <<"target_cpu", arch>> >>

\* write_gn_args_summary: the file it writes, as a path below BASE_DIR
summary_file(plat) ==
    IF plat = "wasm" THEN <<"wasm", "gn_args.txt">>
    ELSE <<plat, "lib", "gn_args.txt">>

----------------------------------------------------------------------------
(* The state after construction, with the command line and the host drawn *)

\* files a Skia checkout may hold, as paths below SKIA_SRC_DIR: headers and
\* other files, below allow-listed directories and elsewhere, with and
\* without a directory named android on the way
SourceFiles == {
    <<"include", "core", "SkCanvas.h">>,
    <<"include", "core", "SkCanvas.cpp">>,
    <<"include", "core", "SkTypes.hpp">>,
    <<"include", "core", "android.h">>,
    <<"include", "android", "SkAnimatedImage.h">>,
    <<"include", "gpu", "android", "GrAHardwareBuffer.h">>,
    <<"modules", "skottie", "include", "Skottie.h">>,
    <<"modules", "skottie", "android", "SkottieJni.h">>,
    <<"modules", "canvaskit", "WasmCommon.h">>,
    <<"src", "core", "SkGeometry.h">>,
    <<"src", "gpu", "GrContext.h">>,
    <<"src", "xml">>,
    <<"android", "SkAndroidTop.h">> }

\* the checkouts drawn as input of package_headers
Trees == { t \in SUBSET SourceFiles : Cardinality(t) <= MaxFiles }

\* the checkout of a whole run
StockTree == SourceFiles

\* gn_args.txt before write_gn_args_summary
NoSummary ==
    [written |-> FALSE, file |-> <<>>, platform |-> None, config |-> None,
     archs |-> <<>>, sections |-> <<>>]

\* a host that is not Windows; a Windows host whose environment says ARM64;
\* a Windows host where only the processor query tells, either way.  The
\* build directory is fresh (depot_tools and the Skia checkout are absent)
\* or left by an earlier run (both are present).
Hosts ==
    { [win |-> w[1], env_arm64 |-> w[2], wmi_arm64 |-> w[3], fresh |-> f] :
        w \in { <<FALSE, FALSE, FALSE>>, <<TRUE, TRUE, TRUE>>,
                <<TRUE, FALSE, TRUE>>, <<TRUE, FALSE, FALSE>> },
        f \in BOOLEAN }

\* the command lines drawn: every platform choice and one name argparse
\* refuses, both configurations, every -archs list up to MaxArchs names (the
\* empty list is an absent or empty -archs).  For xcframework, whose -archs is
\* overwritten, the lists are those of at most one name.
Requests ==
    { r \in [platform : PlatformChoices \cup {"linux"},
             config   : ConfigChoices,
             archs    : SeqsUpTo(ArchNames, MaxArchs)] :
        r.platform \in {"xcframework", "linux"} => Len(r.archs) <= 1 }

\* the targets that need Apple's tools (lipo, libtool, xcodebuild)
AppleTargets == {"mac", "ios", "xcframework"}

\* build-skia.py does not run the Dawn patch script
NoDawn == [pc |-> "idle"]

\* Apple targets are requested on hosts that are not Windows, the win target
\* (whose flags name C:\Program Files\LLVM) on Windows hosts
Init ==
    /\ args \in Requests
    /\ host \in Hosts
    /\ args.platform \in AppleTargets => ~host.win
    /\ args.platform = "win" => host.win
    /\ platform = None
    /\ config = "Release"
    /\ archs = <<>>
    /\ xcframework = FALSE
    /\ pc = "parse_arguments"
    /\ i = 0
    /\ exit_code = NoExit
    /\ calls = <<>>
    /\ gn_calls = <<>>
    /\ tmp_dirs = {}
    /\ tmp_files = {}
    /\ lib_files = {}
    /\ lib_dirs = {}
    /\ unbuilt = {}
    /\ src_tree = StockTree
    /\ include_files = {}
    /\ summary = NoSummary
    /\ dawn = NoDawn

\* sys.exit(code), or an exception nothing catches (code 1)
Exit(code) ==
    /\ pc' = "exited"
    /\ exit_code' = code

----------------------------------------------------------------------------
(* run(), step by step *)

\* parse_arguments, with get_default_archs and validate_archs
ParseArguments ==
    /\ pc = "parse_arguments"
    /\ UNCHANGED dawn
    /\ UNCHANGED <<args, host, i, gn_calls, tmp_dirs, tmp_files,
                   lib_files, lib_dirs, unbuilt,
                   src_tree, include_files, summary>>
    /\ IF args.platform \notin PlatformChoices
       THEN \* argparse: invalid choice
            /\ Exit(2)
            /\ UNCHANGED <<platform, config, archs, xcframework, calls>>
       ELSE LET xc       == args.platform = "xcframework"
                plat     == IF xc THEN "mac" ELSE args.platform
                cfg      == IF xc THEN "Release" ELSE args.config
                detects  == ~xc /\ args.archs = <<>> /\ plat = "win"
            IN LET as  == IF xc THEN <<"universal">>
                          ELSE IF args.archs # <<>> THEN args.archs
                          ELSE get_default_archs(plat, is_arm64_host)
                   bad == validate_archs(plat, as)
               IN /\ xcframework' = xc
                  /\ platform' = plat
                  /\ config' = cfg
                  /\ archs' = as
                  /\ IF bad # {}
                     THEN /\ calls' = calls \o PowershellCall(detects)
                                \o <<Ev("validate_archs", plat, as[Min(bad)], "", FALSE)>>
                          /\ Exit(1)
                     ELSE /\ calls' = calls \o PowershellCall(detects)
                                \o <<Ev("validate_archs", plat, "", "", TRUE)>>
                          /\ pc' = "setup_depot_tools"
                          /\ UNCHANGED exit_code

\* where run() goes after setup_depot_tools
AfterSetupDepotTools_skip_repo == IF host.win THEN "setup_python3_on_windows" ELSE "sync_deps"

AfterSetupDepotTools == IF host.win THEN "setup_python3_on_windows" ELSE "setup_skia_repo"

\* setup_depot_tools: git clone (check=True) when the directory is absent
SetupDepotTools ==
    /\ pc = "setup_depot_tools"
    /\ UNCHANGED dawn
    /\ UNCHANGED <<args, host, platform, config, archs, xcframework, i, gn_calls,
                   tmp_dirs, tmp_files, lib_files, lib_dirs, unbuilt,
                   src_tree, include_files, summary>>
    /\ \E outcome \in IF host.fresh THEN {"cloned", "clone failed"} ELSE {"present"} :
       CASE outcome = "present" ->
               /\ calls' = calls \o <<Ev("setup_depot_tools", "", "", "", TRUE)>>
               /\ pc' = AfterSetupDepotTools
               /\ UNCHANGED exit_code
         [] outcome = "cloned" ->
               /\ calls' = calls \o <<Ev("setup_depot_tools", "", "", "", TRUE),
                                      Ev("git clone depot_tools", "", "", "", TRUE)>>
               /\ pc' = AfterSetupDepotTools
               /\ UNCHANGED exit_code
         [] outcome = "clone failed" ->
               /\ calls' = calls \o <<Ev("setup_depot_tools", "", "", "", TRUE),
                                      Ev("git clone depot_tools", "", "", "", FALSE)>>
               /\ Exit(1)

\* setup_python3_on_windows: writes python3.bat, starts no process
SetupPython3OnWindows ==
    /\ pc = "setup_python3_on_windows"
    /\ UNCHANGED dawn
    /\ calls' = calls \o <<Ev("setup_python3_on_windows", "", "", "", TRUE)>>
    /\ pc' = "setup_skia_repo"
    /\ UNCHANGED <<args, host, platform, config, archs, xcframework, i, exit_code,
                   gn_calls, tmp_dirs, tmp_files,
                   lib_files, lib_dirs, unbuilt,
                   src_tree, include_files, summary>>

\* the git commands setup_skia_repo may get through: a clone when the checkout
\* is absent, else fetch, checkout and reset; each has check=True, so the
\* first failure ends the process
GitRuns ==
    IF host.fresh
    THEN
    { <<Ev("git clone", "", "", "", TRUE)>>,
      <<Ev("git clone", "", "", "", FALSE)>> }
    ELSE
    { <<Ev("git fetch", "", "", "", FALSE)>>,
      <<Ev("git fetch", "", "", "", TRUE), Ev("git checkout", "", "", "", FALSE)>>,
      <<Ev("git fetch", "", "", "", TRUE), Ev("git checkout", "", "", "", TRUE),
        Ev("git reset", "", "", "", FALSE)>>,
      <<Ev("git fetch", "", "", "", TRUE), Ev("git checkout", "", "", "", TRUE),
        Ev("git reset", "", "", "", TRUE)>> }

\* setup_skia_repo: clone, or fetch + checkout + reset
SetupSkiaRepo ==
    /\ pc = "setup_skia_repo"
    /\ UNCHANGED dawn
    /\ UNCHANGED <<args, host, platform, config, archs, xcframework, i, gn_calls,
                   tmp_dirs, tmp_files, lib_files, lib_dirs, unbuilt,
                   src_tree, include_files, summary>>
    /\ \E run \in GitRuns :
       /\ calls' = calls \o <<Ev("setup_skia_repo", "", "", "", TRUE)>> \o run
       /\ IF run[Len(run)].ok
          THEN /\ pc' = IF config = "Release" THEN "modify_deps" ELSE "sync_deps"
               /\ UNCHANGED exit_code
          ELSE Exit(1)

\* modify_deps (Release only): sys.exit(1) when DEPS is absent
ModifyDeps ==
    /\ pc = "modify_deps"
    /\ UNCHANGED dawn
    /\ UNCHANGED <<args, host, platform, config, archs, xcframework, i, gn_calls,
                   tmp_dirs, tmp_files, lib_files, lib_dirs, unbuilt,
                   src_tree, include_files, summary>>
    /\ \E deps_exists \in BOOLEAN :
       /\ calls' = calls \o <<Ev("modify_deps", "", "", "", deps_exists)>>
       /\ IF deps_exists
          THEN pc' = "sync_deps" /\ UNCHANGED exit_code
          ELSE Exit(1)

\* sync_deps: patch_activate_emsdk, then tools/git-sync-deps (check=True)
SyncDeps ==
    /\ pc = "sync_deps"
    /\ UNCHANGED dawn
    /\ UNCHANGED <<args, host, platform, config, archs, xcframework, i, gn_calls,
                   tmp_dirs, tmp_files, lib_files, lib_dirs, unbuilt,
                   src_tree, include_files, summary>>
    /\ \E ok \in BOOLEAN :
       /\ calls' = calls \o <<Ev("git-sync-deps", "", "", "", ok)>>
       /\ IF ok
          THEN pc' = "select_archs" /\ UNCHANGED exit_code
          ELSE Exit(1)

\* run(): the architectures the loop builds
build_archs_as_requested(as, xc) == as

build_archs(as, xc) ==
    IF "universal" \in Range(as) \/ xc THEN <<"x86_64", "arm64">> ELSE as

\* run(): "universal" and the xcframework target both mean x86_64 then arm64
SelectArchs ==
    /\ pc = "select_archs"
    /\ UNCHANGED dawn
    /\ archs' = build_archs(archs, xcframework)
    /\ i' = 1
    /\ pc' = "generate_gn_args"
    /\ UNCHANGED <<args, host, platform, config, xcframework, exit_code, calls,
                   gn_calls, tmp_dirs, tmp_files,
                   lib_files, lib_dirs, unbuilt,
                   src_tree, include_files, summary>>


\* generate_gn_args: whether a gn gen that returned `ok` ends the process
gn_gen_exits_never(ok) == FALSE

gn_gen_exits(ok) == ~ok

\* generate_gn_args(archs[i]): synthesize the flag text, then run gn gen
GenerateGnArgs ==
    /\ pc = "generate_gn_args"
    /\ UNCHANGED dawn
    /\ UNCHANGED <<args, host, platform, config, archs, xcframework, i,
                   tmp_files, lib_files, lib_dirs, unbuilt,
                   src_tree, include_files, summary>>
    /\ \E outcome \in {"no gn", "gn failed", "gn ok"} :
       LET arch     == archs[i]
           is_arm64 == is_arm64_host
           text     == gn_args(platform, config, arch, is_arm64)
           ok       == outcome = "gn ok"
       IN /\ gn_calls' = Append(gn_calls,
                [platform |-> platform, config |-> config, arch |-> arch,
                 is_arm64 |-> is_arm64, dir |-> output_dir(platform, config, arch),
                 text |-> text])
          /\ IF outcome = "no gn"
             THEN \* the gn executable is not there: sys.exit(1)
                  /\ calls' = calls \o PowershellCall(TRUE)
                        \o <<Ev("generate_gn_args", platform, arch, "", FALSE)>>
                  /\ Exit(1)
                  /\ UNCHANGED tmp_dirs
             ELSE /\ calls' = calls \o PowershellCall(TRUE)
                        \o <<Ev("generate_gn_args", platform, arch, "", TRUE),
                             EvAt("gn", platform, arch, "", ok, <<>>,
                                  output_dir(platform, config, arch), <<>>)>>
                  /\ IF gn_gen_exits(ok)
                     THEN Exit(1) /\ UNCHANGED tmp_dirs
                     ELSE /\ pc' = "build_skia"
                          /\ tmp_dirs' = tmp_dirs \cup {output_dir(platform, config, arch)}
                          /\ UNCHANGED exit_code

\* build_skia: the targets handed to ninja; on win each name loses its
\* ".lib" suffix
ninja_targets_unstripped(plat) == LIBS[plat]

ninja_targets(plat) ==
    IF plat = "win"
    THEN [k \in 1..Len(LIBS[plat]) |->
            LET lib == LIBS[plat][k]
            IN IF endswith(lib, ".lib") THEN SubSeq(lib, 1, Len(lib) - 4) ELSE lib]
    ELSE LIBS[plat]

\* the libraries a successful ninja is taken to leave out of the OutputTree
\* one by one: the first, a middle and the last name of the platform's list
Droppable(plat) ==
    { LIBS[plat][k] : k \in {1, Len(LIBS[plat]) \div 2, Len(LIBS[plat])} }

\* build_skia(archs[i]): run ninja (check=True) in the OutputTree
BuildSkia ==
    /\ pc = "build_skia"
    /\ UNCHANGED dawn
    /\ UNCHANGED <<args, host, platform, config, archs, xcframework, i, gn_calls,
                   tmp_dirs, lib_files, lib_dirs, src_tree, include_files, summary>>
    /\ LET arch == archs[i]
           libs == Range(LIBS[platform])
       IN \/ \* ninja is absent on a Windows host and fetching it raises
             /\ host.win
             /\ calls' = calls \o <<Ev("build_skia", platform, arch, "", FALSE)>>
             /\ Exit(1)
             /\ UNCHANGED <<tmp_files, unbuilt,
                   src_tree, include_files, summary>>
          \/ \* ninja exits non-zero
             /\ calls' = calls \o <<Ev("build_skia", platform, arch, "", TRUE),
                                    EvAt("ninja", platform, arch, "", FALSE,
                                         ninja_targets(platform),
                                         output_dir(platform, config, arch), <<>>)>>
             /\ Exit(1)
             /\ UNCHANGED <<tmp_files, unbuilt,
                   src_tree, include_files, summary>>
          \/ \* ninja exits zero, having left the libraries of `missing` out of
             \* the OutputTree: any few of them or all of them in the first
             \* build of a platform, the same in its later ones
             \E missing \in (SUBSET Droppable(platform)) \cup {libs} :
                /\ Cardinality(missing) <= MaxMissing \/ missing = libs
                /\ (\E k \in Positions("ninja") : calls[k].platform = platform)
                      => missing = unbuilt
                /\ unbuilt' = missing
                /\ calls' = calls \o <<Ev("build_skia", platform, arch, "", TRUE),
                                       EvAt("ninja", platform, arch, "", TRUE,
                                            ninja_targets(platform),
                                            output_dir(platform, config, arch), <<>>)>>
                /\ tmp_files' = tmp_files \cup
                       { <<output_dir(platform, config, arch), lib>> :
                            lib \in libs \ missing }
                /\ pc' = "move_libs"
                /\ UNCHANGED exit_code

\* move_libs and combine_libraries: the directory below <platform>/lib/<config>
arch_dir_flat(plat, arch) == ""

arch_dir(plat, arch) ==
    CASE plat = "mac"  -> IF arch # "universal" THEN arch ELSE ""
      [] plat = "ios"  -> arch
      [] plat = "wasm" -> ""
      [] OTHER         -> arch

\* run(): whether create_universal_binary is called after the loop
universal_wanted(plat, as) == plat = "mac" /\ as = <<"x86_64", "arm64">>

\* run(): the step that follows the universal-binary decision
AfterUniversal_no_combine == "package_headers"

AfterUniversal == IF xcframework THEN "combine_libraries" ELSE "package_headers"

\* run(): the step that follows the last move_libs of the first loop
AfterLoop ==
    IF universal_wanted(platform, archs) THEN "create_universal_binary"
    ELSE AfterUniversal

\* run(): the for-loop over self.archs goes on to the next entry
next_index_same(k) == k

next_index(k) == k + 1

\* move_libs(archs[i]): copy each library that exists, warn about the others
MoveLibs ==
    /\ pc = "move_libs"
    /\ UNCHANGED dawn
    /\ UNCHANGED <<args, host, platform, config, archs, xcframework, exit_code,
                   gn_calls, tmp_dirs, unbuilt,
                   src_tree, include_files, summary>>
    /\ LET arch    == archs[i]
           src     == output_dir(platform, config, arch)
           dest    == arch_dir(platform, arch)
           exists(lib) == <<src, lib>> \in tmp_files
           absent  == SelectSeq(LIBS[platform], LAMBDA lib : ~exists(lib))
           found   == { lib \in Range(LIBS[platform]) : exists(lib) }
       IN /\ lib_dirs' = lib_dirs \cup {<<platform, config, "">>, <<platform, config, dest>>}
          /\ lib_files' = lib_files \cup { <<platform, config, dest, lib>> : lib \in found }
          /\ tmp_files' = tmp_files \ { <<src, lib>> : lib \in found }
          /\ calls' = calls \o <<EvAt("move_libs", platform, arch, "", TRUE,
                                       LIBS[platform], src,
                                       <<platform, config, dest>>)>>
                \o [k \in 1..Len(absent) |-> Ev("warning", platform, arch, absent[k], FALSE)]
    /\ IF xcframework /\ platform = "ios"
       THEN pc' = "combine_libraries" /\ UNCHANGED i
       ELSE IF i < Len(archs)
       THEN pc' = "generate_gn_args" /\ i' = next_index(i)
       ELSE pc' = AfterLoop /\ UNCHANGED i

\* create_universal_binary: the architectures whose copies lipo fuses
lipo_archs == <<"x86_64", "arm64">>

\* create_universal_binary: the architecture folders removed at the end
removed_archs_one == {"x86_64"}

removed_archs == {"x86_64", "arm64"}

\* create_universal_binary: lipo per library (check=True), then rmtree.
\* lipo can exit zero only when the copies it is given exist; the first lipo
\* that exits non-zero ends the process.
CreateUniversalBinary ==
    /\ pc = "create_universal_binary"
    /\ UNCHANGED dawn
    /\ UNCHANGED <<args, host, platform, config, archs, xcframework, i, gn_calls,
                   tmp_dirs, tmp_files, unbuilt,
                   src_tree, include_files, summary>>
    /\ LET libs == LIBS[platform]
           present(lib) == \A a \in Range(lipo_archs) :
                               <<"mac", config, a, lib>> \in lib_files
           lipo(k, ok) == EvIn("lipo", "mac", "", libs[k], ok, lipo_archs)
       IN \E n \in 0..Len(libs) :
          /\ \A k \in 1..n : present(libs[k])
          /\ IF n = Len(libs)
             THEN /\ calls' = calls \o <<Ev("create_universal_binary", "mac", "", "", TRUE)>>
                        \o [k \in 1..n |-> lipo(k, TRUE)]
                  /\ lib_files' =
                        { f \in lib_files :
                            ~(f[1] = "mac" /\ f[2] = config /\ f[3] \in removed_archs) }
                        \cup { <<"mac", config, "", libs[k]>> : k \in 1..n }
                  /\ lib_dirs' = (lib_dirs \cup {<<"mac", config, "">>})
                        \ { <<"mac", config, a>> : a \in removed_archs }
                  /\ pc' = AfterUniversal
                  /\ UNCHANGED exit_code
             ELSE /\ calls' = calls \o <<Ev("create_universal_binary", "mac", "", "", TRUE)>>
                        \o [k \in 1..n |-> lipo(k, TRUE)] \o <<lipo(n + 1, FALSE)>>
                  /\ lib_files' = lib_files \cup { <<"mac", config, "", libs[k]>> : k \in 1..n }
                  /\ lib_dirs' = lib_dirs \cup {<<"mac", config, "">>}
                  /\ Exit(1)

\* combine_libraries: the libraries handed to libtool, those of the list
\* that exist in the library directory
combine_inputs_all(plat, cfg, dir) == LIBS[plat]

combine_inputs(plat, cfg, dir) ==
    SelectSeq(LIBS[plat], LAMBDA lib : <<plat, cfg, dir, lib>> \in lib_files)

\* combine_libraries(platform, arch): libtool (check=True) over the libraries
\* that exist; run() calls it with ("mac", "universal") and ("ios", arch)
CombineLibraries ==
    /\ pc = "combine_libraries"
    /\ UNCHANGED dawn
    /\ UNCHANGED <<args, host, platform, config, archs, xcframework, gn_calls,
                   tmp_dirs, tmp_files, lib_dirs, unbuilt,
                   src_tree, include_files, summary>>
    /\ LET plat == IF platform = "mac" THEN "mac" ELSE "ios"
           arch == IF platform = "mac" THEN "universal" ELSE archs[i]
           dir  == IF plat = "mac" THEN arch_dir("mac", arch) ELSE arch
           input_libs == combine_inputs(plat, config, dir)
           next == IF platform = "mac" THEN "switch_to_ios"
                   ELSE IF i < Len(archs) THEN "generate_gn_args"
                   ELSE "package_headers"
           step == Ev("combine_libraries", plat, arch, "", TRUE)
       IN IF input_libs # <<>>
          THEN \E ok \in BOOLEAN :
               /\ calls' = calls \o <<step, EvIn("libtool", plat, arch, "libSkia.a", ok,
                                                  input_libs)>>
               /\ IF ok
                  THEN /\ lib_files' = lib_files \cup {<<plat, config, dir, "libSkia.a">>}
                       /\ pc' = next
                       /\ i' = IF next = "generate_gn_args" THEN next_index(i) ELSE i
                       /\ UNCHANGED exit_code
                  ELSE /\ Exit(1)
                       /\ UNCHANGED <<lib_files, i>>
          ELSE /\ calls' = calls \o <<step, Ev("warning", plat, arch, "libSkia.a", FALSE)>>
               /\ pc' = next
               /\ i' = IF next = "generate_gn_args" THEN next_index(i) ELSE i
               /\ UNCHANGED <<lib_files, exit_code>>

\* run(), xcframework: the second pass builds ios x86_64 and arm64
SwitchToIos ==
    /\ pc = "switch_to_ios"
    /\ UNCHANGED dawn
    /\ platform' = "ios"
    /\ archs' = <<"x86_64", "arm64">>
    /\ i' = 1
    /\ pc' = "generate_gn_args"
    /\ UNCHANGED <<args, host, config, xcframework, exit_code, calls, gn_calls,
                   tmp_dirs, tmp_files, lib_files, lib_dirs, unbuilt,
                   src_tree, include_files, summary>>

\* package_headers(BASE_DIR / "include"): copy the headers of the checkout;
\* the checkout is only read
PackageHeaders ==
    /\ pc = "package_headers"
    /\ UNCHANGED dawn
    /\ calls' = calls \o <<Ev("package_headers", platform, "", "", TRUE)>>
    /\ include_files' = include_files \cup package_headers(src_tree)
    /\ pc' = IF xcframework THEN "create_xcframework" ELSE "write_gn_args_summary"
    /\ UNCHANGED <<args, host, platform, config, archs, xcframework, i, exit_code,
                   gn_calls, tmp_dirs, tmp_files, lib_files, lib_dirs, unbuilt,
                   src_tree, summary>>

\* create_xcframework: xcodebuild; CalledProcessError is caught and printed
CreateXcframework ==
    /\ pc = "create_xcframework"
    /\ UNCHANGED dawn
    /\ \E ok \in BOOLEAN :
       calls' = calls \o <<Ev("create_xcframework", "", "", "", TRUE),
                           Ev("xcodebuild", "", "", "Skia.xcframework", ok)>>
    /\ pc' = "write_gn_args_summary"
    /\ UNCHANGED <<args, host, platform, config, archs, xcframework, i, exit_code,
                   gn_calls, tmp_dirs, tmp_files, lib_files, lib_dirs, unbuilt,
                   src_tree, include_files, summary>>

\* write_gn_args_summary: one section per name of self.archs, for
\* self.platform and self.config as they are at the end of run()
WriteGnArgsSummary ==
    /\ pc = "write_gn_args_summary"
    /\ UNCHANGED dawn
    /\ calls' = calls \o <<Ev("write_gn_args_summary", platform, "", "", TRUE)>>
    /\ summary' =
          [written |-> TRUE, file |-> summary_file(platform),
           platform |-> platform, config |-> config, archs |-> archs,
           sections |-> [k \in 1..Len(archs) |->
                           [arch |-> archs[k],
                            text |-> generate_gn_args_summary(platform, config, archs[k])]]]
    /\ pc' = "completed"
    /\ UNCHANGED <<args, host, platform, config, archs, xcframework, i, exit_code,
                   gn_calls, tmp_dirs, tmp_files, lib_files, lib_dirs, unbuilt,
                   src_tree, include_files>>

\* run() returns: the interpreter exits with code 0
Complete ==
    /\ pc = "completed"
    /\ UNCHANGED dawn
    /\ pc' = "done"
    /\ exit_code' = 0
    /\ UNCHANGED <<args, host, platform, config, archs, xcframework, i,
                   calls, gn_calls, tmp_dirs, tmp_files, lib_files, lib_dirs, unbuilt,
                   src_tree, include_files, summary>>

\* cleanup(), called once run() has returned: rmtree of the OutputTree of
\* self.platform, self.config and each name of self.archs, as they are then
Cleanup ==
    /\ pc = "done"
    /\ UNCHANGED dawn
    /\ LET trees == { output_dir(platform, config, archs[k]) : k \in 1..Len(archs) }
       IN /\ tmp_dirs' = tmp_dirs \ trees
          /\ tmp_files' = { f \in tmp_files : f[1] \notin trees }
    /\ calls' = calls \o <<Ev("cleanup", platform, "", "", TRUE)>>
    /\ pc' = "cleaned"
    /\ UNCHANGED <<args, host, platform, config, archs, xcframework, i, exit_code,
                   gn_calls, lib_files, lib_dirs, unbuilt,
                   src_tree, include_files, summary>>

Next ==
    \/ ParseArguments
    \/ SetupDepotTools
    \/ SetupPython3OnWindows
    \/ SetupSkiaRepo
    \/ ModifyDeps
    \/ SyncDeps
    \/ SelectArchs
    \/ GenerateGnArgs
    \/ BuildSkia
    \/ MoveLibs
    \/ CreateUniversalBinary
    \/ CombineLibraries
    \/ SwitchToIos
    \/ PackageHeaders
    \/ CreateXcframework
    \/ WriteGnArgsSummary
    \/ Complete
    \/ Cleanup

Spec == Init /\ [][Next]_vars

\* the steps of run() itself; cleanup() is the caller's to make or not
RunStep ==
    \E target \in {"cleaned"} : Next /\ pc' # target

\* every external process returns, so run() takes its next step as long as
\* it has one
FairSpec == Spec /\ WF_vars(RunStep)

\* package_headers on its own: a wasm Debug run that has reached
\* package_headers, over every checkout of Trees, taken to its end
HeaderInit ==
    /\ src_tree \in Trees
    /\ args = [platform |-> "wasm", config |-> "Debug", archs |-> <<>>]
    /\ host = [win |-> FALSE, env_arm64 |-> FALSE, wmi_arm64 |-> FALSE,
               fresh |-> FALSE]
    /\ platform = "wasm"
    /\ config = "Debug"
    /\ archs = <<"wasm32">>
    /\ xcframework = FALSE
    /\ pc = "package_headers"
    /\ i = 1
    /\ exit_code = NoExit
    /\ calls = <<>>
    /\ gn_calls = <<>>
    /\ tmp_dirs = {output_dir("wasm", "Debug", "wasm32")}
    /\ tmp_files = {}
    /\ lib_files = { <<"wasm", "Debug", "", LIBS["wasm"][k]>> : k \in 1..Len(LIBS["wasm"]) }
    /\ lib_dirs = {<<"wasm", "Debug", "">>}
    /\ unbuilt = {}
    /\ include_files = {}
    /\ summary = NoSummary
    /\ dawn = NoDawn

HeaderNext ==
    \/ PackageHeaders
    \/ WriteGnArgsSummary
    \/ Complete

HeaderSpec == HeaderInit /\ [][HeaderNext]_vars

----------------------------------------------------------------------------
(* patches/apply_dawn_ios_visionos.py *)

\* the four files of third_party/dawn that apply_patches reads and writes
FileNames == {"args.gni", "BUILD.gn", "build_dawn.py", "cmake_utils.py"}

\* most pieces of text that a drawn file content is put together from
MaxBlocks == 2

\* sub in s
contains(s, sub) ==
    \E k \in 1..(Len(s) - Len(sub) + 1) : SubSeq(s, k, k + Len(sub) - 1) = sub

\* the places in s where old begins; the first characters are compared first
occurrences(s, old) ==
    LET m == Len(old)
        p == IF m < 6 THEN m ELSE 6
    IN { k \in 1..(Len(s) - m + 1) :
            /\ SubSeq(s, k, k + p - 1) = SubSeq(old, 1, p)
            /\ SubSeq(s, k, k + m - 1) = old }

\* str.replace(old, new): every occurrence of old, from the left, without
\* overlap; the text put in is not searched again
RECURSIVE replace(_, _, _)
replace(s, old, new) ==
    LET hits == occurrences(s, old)
    IN IF hits = {} THEN s
       ELSE LET k == Min(hits)
            IN SubSeq(s, 1, k - 1) \o new
                 \o replace(SubSeq(s, k + Len(old), Len(s)), old, new)

\* 1. args.gni: the text looked for and the text put in its place
args_gni_old ==
       "  dawn_enable_vulkan = is_linux || is_android\n"
    \o "}"

args_gni_new ==
       "  dawn_enable_vulkan = is_linux || is_android\n"
    \o "\n"
    \o "  # Target platform override for visionOS builds (which use target_os=ios as a workaround)\n"
    \o "  # Set to \"visionos\" when building for visionOS, otherwise leave as empty string\n"
    \o "  dawn_target_platform = \"\"\n"
    \o "}"

\* 2. BUILD.gn
build_gn_old == "  args += sanitizer_args"

insertion ==
       "\n"
    \o "  # Pass iOS simulator flag to CMake (iOS only)\n"
    \o "  # This is needed because on Apple Silicon, arm64 is used for both device\n"
    \o "  # and simulator builds, so we can't infer simulator from CPU architecture.\n"
    \o "  if (is_ios && defined(ios_use_simulator) && ios_use_simulator) {\n"
    \o "    args += [ \"--ios_simulator\" ]\n"
    \o "  }\n"
    \o "\n"
    \o "  # Pass visionOS target platform to CMake (for visionOS builds using target_os=ios workaround)\n"
    \o "  # When dawn_target_platform=\"visionos\", Dawn will use xros SDK instead of iphoneos SDK\n"
    \o "  if (is_ios && defined(dawn_target_platform) && dawn_target_platform == \"visionos\") {\n"
    \o "    args += [ \"--visionos\" ]\n"
    \o "  }\n"
    \o "\n"
    \o "  args += sanitizer_args"

\* 3. build_dawn.py: the imports, the arguments, the iOS handling
imports_old ==
       "from cmake_utils import (add_common_cmake_args, combine_into_library,\n"
    \o "                         discover_dependencies, get_cmake_os_cpu,\n"
    \o "                         get_windows_settings, quote_if_needed, write_depfile,\n"
    \o "                         get_third_party_locations)"

imports_new ==
       "from cmake_utils import (add_common_cmake_args, combine_into_library,\n"
    \o "                         discover_dependencies, get_cmake_os_cpu,\n"
    \o "                         get_windows_settings, get_ios_settings,\n"
    \o "                         get_visionos_settings, quote_if_needed, write_depfile,\n"
    \o "                         get_third_party_locations)"

arguments_old ==
       "parser.add_argument(\n"
    \o "      \"--dawn_enable_vulkan\", default=\"false\", help=\"Enable Vulkan backend.\")\n"
    \o "  args = parser.parse_args()"

arguments_new ==
       "parser.add_argument(\n"
    \o "      \"--dawn_enable_vulkan\", default=\"false\", help=\"Enable Vulkan backend.\")\n"
    \o "  parser.add_argument(\n"
    \o "      \"--ios_simulator\", action=\"store_true\",\n"
    \o "      help=\"Building for iOS simulator (uses iphonesimulator SDK)\")\n"
    \o "  parser.add_argument(\n"
    \o "      \"--visionos\", action=\"store_true\",\n"
    \o "      help=\"Building for visionOS (uses xros SDK instead of iphoneos)\")\n"
    \o "  args = parser.parse_args()"

handling_old ==
       "if target_os == \"Darwin\" or target_os == \"iOS\":\n"
    \o "    configure_cmd.append(f\"-DCMAKE_OSX_ARCHITECTURES={target_cpu}\")\n"
    \o "\n"
    \o "  env = os.environ.copy()"

handling_new ==
       "if target_os == \"Darwin\" or target_os == \"iOS\":\n"
    \o "    configure_cmd.append(f\"-DCMAKE_OSX_ARCHITECTURES={target_cpu}\")\n"
    \o "    if target_os == \"iOS\":\n"
    \o "      # Get iOS/visionOS SDK settings\n"
    \o "      if args.visionos:\n"
    \o "        # visionOS: CMake 3.28+ supports CMAKE_SYSTEM_NAME=visionOS\n"
    \o "        # We need to override the system name set earlier to use the correct platform\n"
    \o "        # Find and replace the CMAKE_SYSTEM_NAME in configure_cmd\n"
    \o "        for i, arg in enumerate(configure_cmd):\n"
    \o "          if arg.startswith(\"-DCMAKE_SYSTEM_NAME=\"):\n"
    \o "            configure_cmd[i] = \"-DCMAKE_SYSTEM_NAME=visionOS\"\n"
    \o "            break\n"
    \o "        platform_cfgs = get_visionos_settings(target_cpu, is_simulator=args.ios_simulator)\n"
    \o "      else:\n"
    \o "        # iOS uses iphoneos/iphonesimulator SDK\n"
    \o "        platform_cfgs = get_ios_settings(target_cpu, is_simulator=args.ios_simulator)\n"
    \o "      configure_cmd += platform_cfgs\n"
    \o "      # Disable tint command-line tools for iOS/visionOS (they require MACOSX_BUNDLE config)\n"
    \o "      configure_cmd.append(\"-DTINT_BUILD_CMD_TOOLS=OFF\")\n"
    \o "\n"
    \o "  env = os.environ.copy()"

\* 4. cmake_utils.py: get_cmake_os_cpu, and the settings functions
os_cpu_old ==
       "  if os == \"mac\":\n"
    \o "    target_cpu_map = {\n"
    \o "      \"arm64\": \"arm64\",\n"
    \o "      \"x64\": \"x86_64\",\n"
    \o "    }\n"
    \o "    return \"Darwin\", target_cpu_map[cpu]\n"
    \o "\n"
    \o "  if os == \"win\":"

os_cpu_new ==
       "  if os == \"mac\":\n"
    \o "    target_cpu_map = {\n"
    \o "      \"arm64\": \"arm64\",\n"
    \o "      \"x64\": \"x86_64\",\n"
    \o "    }\n"
    \o "    return \"Darwin\", target_cpu_map[cpu]\n"
    \o "\n"
    \o "  if os == \"ios\":\n"
    \o "    # iOS uses the same CPU names as Darwin\n"
    \o "    target_cpu_map = {\n"
    \o "      \"arm64\": \"arm64\",\n"
    \o "      \"x64\": \"x86_64\",\n"
    \o "    }\n"
    \o "    return \"iOS\", target_cpu_map[cpu]\n"
    \o "\n"
    \o "  if os == \"win\":"

windows_settings_old == "def get_windows_settings(args):"

ios_visionos_functions ==
       "\n"
    \o "def get_ios_settings(target_cpu, is_simulator=False):\n"
    \o "  \"\"\"Get CMake settings for iOS cross-compilation.\n"
    \o "     Uses xcrun to find the appropriate iOS SDK.\n"
    \o "\n"
    \o "     Args:\n"
    \o "       target_cpu: Target CPU architecture (arm64 or x64)\n"
    \o "       is_simulator: If True, use simulator SDK regardless of CPU architecture.\n"
    \o "                     This is important on Apple Silicon where arm64 is used for\n"
    \o "                     both device and simulator builds.\n"
    \o "  \"\"\"\n"
    \o "  ios_cfgs = []\n"
    \o "\n"
    \o "  # Use simulator SDK if explicitly requested, otherwise device SDK\n"
    \o "  if is_simulator:\n"
    \o "    sdk_name = \"iphonesimulator\"\n"
    \o "  else:\n"
    \o "    sdk_name = \"iphoneos\"\n"
    \o "\n"
    \o "  # Get SDK path using xcrun\n"
    \o "  try:\n"
    \o "    sdk_path = subprocess.check_output(\n"
    \o "        [\"xcrun\", \"--sdk\", sdk_name, \"--show-sdk-path\"],\n"
    \o "        text=True\n"
    \o "    ).strip()\n"
    \o "  except subprocess.CalledProcessError:\n"
    \o "    print(f\"Error: Could not find iOS SDK for {sdk_name}\")\n"
    \o "    sys.exit(1)\n"
    \o "\n"
    \o "  ios_cfgs.append(f\"-DCMAKE_OSX_SYSROOT={sdk_path}\")\n"
    \o "  # Dawn uses C++ atomic wait/notify_all which requires iOS 14.0+\n"
    \o "  ios_cfgs.append(\"-DCMAKE_OSX_DEPLOYMENT_TARGET=14.0\")\n"
    \o "\n"
    \o "  # Cross-compilation hints for pthreads (built-in on iOS)\n"
    \o "  # CMake's FindThreads module can't run test programs when cross-compiling,\n"
    \o "  # so we need to provide these hints.\n"
    \o "  ios_cfgs.append(\"-DCMAKE_CROSSCOMPILING=YES\")\n"
    \o "  # Prevent CMake from trying to run test executables during cross-compilation\n"
    \o "  ios_cfgs.append(\"-DCMAKE_TRY_COMPILE_TARGET_TYPE=STATIC_LIBRARY\")\n"
    \o "  # Thread library hints - pthreads is built into the system on Apple platforms\n"
    \o "  ios_cfgs.append(\"-DTHREADS_PREFER_PTHREAD_FLAG=ON\")\n"
    \o "  ios_cfgs.append(\"-DCMAKE_THREAD_LIBS_INIT=-lpthread\")\n"
    \o "  ios_cfgs.append(\"-DCMAKE_HAVE_THREADS_LIBRARY=1\")\n"
    \o "  ios_cfgs.append(\"-DCMAKE_USE_PTHREADS_INIT=1\")\n"
    \o "  ios_cfgs.append(\"-DCMAKE_HAVE_LIBC_PTHREAD=1\")\n"
    \o "\n"
    \o "  return ios_cfgs\n"
    \o "\n"
    \o "\n"
    \o "def get_visionos_settings(target_cpu, is_simulator=False):\n"
    \o "  \"\"\"Get CMake settings for visionOS cross-compilation.\n"
    \o "     Uses xcrun to find the appropriate visionOS SDK.\n"
    \o "\n"
    \o "     Since CMake doesn't natively support visionOS, we use CMAKE_SYSTEM_NAME=iOS\n"
    \o "     but override the sysroot and add target flags for visionOS (xros).\n"
    \o "\n"
    \o "     Args:\n"
    \o "       target_cpu: Target CPU architecture (arm64)\n"
    \o "       is_simulator: If True, use simulator SDK\n"
    \o "  \"\"\"\n"
    \o "  visionos_cfgs = []\n"
    \o "\n"
    \o "  # Determine SDK and target suffix\n"
    \o "  if is_simulator:\n"
    \o "    sdk_name = \"xrsimulator\"\n"
    \o "    target_suffix = \"-simulator\"\n"
    \o "  else:\n"
    \o "    sdk_name = \"xros\"\n"
    \o "    target_suffix = \"\"\n"
    \o "\n"
    \o "  # Get SDK path using xcrun\n"
    \o "  try:\n"
    \o "    sdk_path = subprocess.check_output(\n"
    \o "        [\"xcrun\", \"--sdk\", sdk_name, \"--show-sdk-path\"],\n"
    \o "        text=True\n"
    \o "    ).strip()\n"
    \o "  except subprocess.CalledProcessError:\n"
    \o "    print(f\"Error: Could not find visionOS SDK for {sdk_name}\")\n"
    \o "    sys.exit(1)\n"
    \o "\n"
    \o "  visionos_cfgs.append(f\"-DCMAKE_OSX_SYSROOT={sdk_path}\")\n"
    \o "  # visionOS minimum deployment target\n"
    \o "  visionos_cfgs.append(\"-DCMAKE_OSX_DEPLOYMENT_TARGET=1.0\")\n"
    \o "  # Add target triple flags to ensure correct platform metadata in object files\n"
    \o "  # This is critical - without it, object files get iOS platform metadata instead of visionOS\n"
    \o "  # Include -w to suppress warnings (normally added elsewhere, but we're overriding FLAGS)\n"
    \o "  visionos_cfgs.append(f\"-DCMAKE_C_FLAGS=-w -target arm64-apple-xros1.0{target_suffix}\")\n"
    \o "  visionos_cfgs.append(f\"-DCMAKE_CXX_FLAGS=-w -target arm64-apple-xros1.0{target_suffix}\")\n"
    \o "  visionos_cfgs.append(f\"-DCMAKE_ASM_FLAGS=-target arm64-apple-xros1.0{target_suffix}\")\n"
    \o "\n"
    \o "  # Cross-compilation hints for pthreads (built-in on visionOS)\n"
    \o "  visionos_cfgs.append(\"-DCMAKE_CROSSCOMPILING=YES\")\n"
    \o "  # Prevent CMake from trying to run test executables during cross-compilation\n"
    \o "  visionos_cfgs.append(\"-DCMAKE_TRY_COMPILE_TARGET_TYPE=STATIC_LIBRARY\")\n"
    \o "  # Thread library hints - pthreads is built into the system on Apple platforms\n"
    \o "  visionos_cfgs.append(\"-DTHREADS_PREFER_PTHREAD_FLAG=ON\")\n"
    \o "  visionos_cfgs.append(\"-DCMAKE_THREAD_LIBS_INIT=-lpthread\")\n"
    \o "  visionos_cfgs.append(\"-DCMAKE_HAVE_THREADS_LIBRARY=1\")\n"
    \o "  visionos_cfgs.append(\"-DCMAKE_USE_PTHREADS_INIT=1\")\n"
    \o "  visionos_cfgs.append(\"-DCMAKE_HAVE_LIBC_PTHREAD=1\")\n"
    \o "\n"
    \o "  return visionos_cfgs\n"
    \o "\n"
    \o "\n"
    \o "def get_windows_settings(args):"

\* the string whose absence makes apply_patches rewrite a file
Marker(f) ==
    CASE f = "args.gni"       -> "dawn_target_platform"
      [] f = "BUILD.gn"       -> "--ios_simulator"
      [] f = "build_dawn.py"  -> "get_ios_settings"
      [] f = "cmake_utils.py" -> "get_ios_settings"

\* the replacements made in a file, in order: <<text looked for, text put in>>
Replacements(f) ==
    CASE f = "args.gni"       -> << <<args_gni_old, args_gni_new>> >>
      [] f = "BUILD.gn"       -> << <<build_gn_old, insertion>> >>
      [] f = "build_dawn.py"  -> << <<imports_old, imports_new>>,
                                    <<arguments_old, arguments_new>>,
                                    <<handling_old, handling_new>> >>
      [] f = "cmake_utils.py" -> << <<os_cpu_old, os_cpu_new>>,
                                    <<windows_settings_old, ios_visionos_functions>> >>

\* content.replace(...), then new_content.replace(...) for each further one
RECURSIVE new_content(_, _)
new_content(content, replacements) ==
    IF replacements = <<>> THEN content
    ELSE new_content(replace(content, Head(replacements)[1], Head(replacements)[2]),
                     Tail(replacements))

\* the test that guards the rewriting of a file
needs_patch_always(content, f) == TRUE

needs_patch(content, f) == ~contains(content, Marker(f))

\* pieces of text that the drawn contents of a file are put together from:
\* the texts looked for, whole and in parts, texts close to them, texts that
\* carry the marker, and other text
Pieces(f) ==
    CASE f = "args.gni" ->
            {"declare_args() {\n", args_gni_old,
             "  dawn_enable_vulkan = is_linux || is_android\n", "}",
             "  dawn_enable_vulkan = is_linux\n}",
             "  dawn_target_platform = \"\"\n"}
      [] f = "BUILD.gn" ->
            {"  args = []\n", build_gn_old, "  args += sanitizer", "_args\n",
             "    args += [ \"--ios_simulator\" ]\n"}
      [] f = "build_dawn.py" ->
            {"import os\n", imports_old, arguments_old, handling_old,
             "  args = parser.parse_args()\n", "# get_ios_settings\n"}
      [] f = "cmake_utils.py" ->
            {"import sys\n", os_cpu_old, windows_settings_old,
             "def get_windows", "_settings(args):\n  pass\n",
             "def get_ios_settings(target_cpu):\n  pass\n"}

RECURSIVE Concat(_)
Concat(pieces) ==
    IF pieces = <<>> THEN "" ELSE Head(pieces) \o Concat(Tail(pieces))

Contents(f) == { Concat(p) : p \in SeqsUpTo(Pieces(f), MaxBlocks) }

\* a file of the Dawn checkout that holds every text looked for, once
Unpatched(f) ==
    CASE f = "args.gni"       -> "declare_args() {\n" \o args_gni_old \o "\n"
      [] f = "BUILD.gn"       -> "  args = []\n" \o build_gn_old \o "\n"
      [] f = "build_dawn.py"  -> imports_old \o "\n" \o arguments_old \o "\n"
                                   \o handling_old \o "\n"
      [] f = "cmake_utils.py" -> os_cpu_old \o "\n    pass\n"
                                   \o windows_settings_old \o "\n  pass\n"

\* the variables of build-skia.py, which the patch script leaves alone
run_vars == <<args, host, platform, config, archs, xcframework, pc, i, exit_code,
              calls, gn_calls, tmp_dirs, tmp_files, lib_files, lib_dirs, unbuilt,
              src_tree, include_files, summary>>

\* the script is run twice on a checkout in which one file has a drawn content
PatchInit ==
    /\ \E f \in FileNames : \E c \in Contents(f) :
          dawn = [pc |-> "main", pass |-> "first",
                  files |-> [g \in FileNames |-> IF g = f THEN c ELSE Unpatched(g)],
                  after_first |-> <<>>, log |-> <<>>, printed |-> <<>>,
                  returned |-> <<>>, exit_code |-> NoExit]
    /\ args = [platform |-> "mac", config |-> "Release", archs |-> <<>>]
    /\ host = [win |-> FALSE, env_arm64 |-> FALSE, wmi_arm64 |-> FALSE,
               fresh |-> FALSE]
    /\ platform = None
    /\ config = "Release"
    /\ archs = <<>>
    /\ xcframework = FALSE
    /\ pc = "parse_arguments"
    /\ i = 0
    /\ exit_code = NoExit
    /\ calls = <<>>
    /\ gn_calls = <<>>
    /\ tmp_dirs = {}
    /\ tmp_files = {}
    /\ lib_files = {}
    /\ lib_dirs = {}
    /\ unbuilt = {}
    /\ src_tree = StockTree
    /\ include_files = {}
    /\ summary = NoSummary

\* __main__ up to the call of apply_patches: the argument and the directory
PatchMain ==
    /\ dawn.pc = "main"
    /\ \E given \in {"a directory", "nothing", "no such directory"} :
          CASE given = "nothing" ->
                  dawn' = [dawn EXCEPT !.pc = "exited", !.exit_code = 1,
                              !.printed = Append(@, "Usage")]
            [] given = "no such directory" ->
                  dawn' = [dawn EXCEPT !.pc = "exited", !.exit_code = 1,
                              !.printed = Append(@, "Error: Skia directory not found")]
            [] given = "a directory" ->
                  dawn' = [dawn EXCEPT !.pc = "args.gni",
                              !.printed = Append(@, "Applying Dawn iOS/visionOS patches...")]
    /\ UNCHANGED run_vars

\* one file of apply_patches: read_text, the marker test, the replacements,
\* write_text and the line printed
PatchFile(f, next) ==
    /\ dawn.pc = f
    /\ LET content == dawn.files[f]
           ev(reported, written, after) ==
               [pass |-> dawn.pass, file |-> f, reported |-> reported,
                written |-> written, before |-> content, after |-> after]
       IN IF needs_patch(content, f)
          THEN LET new == new_content(content, Replacements(f))
               IN dawn' = [dawn EXCEPT !.files[f] = new,
                              !.log = Append(@, ev("Patched", TRUE, new)),
                              !.printed = Append(@, "  Patched " \o f),
                              !.pc = next]
          ELSE dawn' = [dawn EXCEPT
                              !.log = Append(@, ev("already patched", FALSE, content)),
                              !.printed = Append(@, "  " \o f \o " already patched"),
                              !.pc = next]
    /\ UNCHANGED run_vars

PatchArgsGni == PatchFile("args.gni", "BUILD.gn")

PatchBuildGn == PatchFile("BUILD.gn", "build_dawn.py")

PatchBuildDawnPy == PatchFile("build_dawn.py", "cmake_utils.py")

PatchCmakeUtilsPy == PatchFile("cmake_utils.py", "return")

\* what apply_patches returns
apply_patches_result == TRUE

\* return True, and __main__ after the call; the script is then run again
PatchReturn ==
    /\ dawn.pc = "return"
    /\ LET result == apply_patches_result
       IN IF result
          THEN dawn' = [dawn EXCEPT
                          !.returned = Append(@, result),
                          !.printed = Append(@, "Done!"),
                          !.pc = IF dawn.pass = "first" THEN "main" ELSE "finished",
                          !.pass = "second",
                          !.after_first = IF dawn.pass = "first" THEN dawn.files ELSE @,
                          !.exit_code = 0]
          ELSE dawn' = [dawn EXCEPT
                          !.returned = Append(@, result),
                          !.printed = Append(@, "Failed to apply patches"),
                          !.pc = "exited",
                          !.exit_code = 1]
    /\ UNCHANGED run_vars

PatchNext ==
    \/ PatchMain
    \/ PatchArgsGni
    \/ PatchBuildGn
    \/ PatchBuildDawnPy
    \/ PatchCmakeUtilsPy
    \/ PatchReturn

PatchSpec == PatchInit /\ [][PatchNext]_vars



----------------------------------------------------------------------------
(* Properties *)

\* the platforms a run builds for
BuildPlatforms == {"mac", "ios", "win", "wasm"}

\* the log entry of validate_archs, once parse_arguments has run
Validation == calls[Min(Positions("validate_archs"))]

\* C1: an -archs list is accepted exactly when each of its names is in the
\* platform's valid set (an absent list stands for the platform's defaults,
\* which are accepted); a list with a name outside it makes the process exit
\* with a non-zero code, and no external process has been started by then.
C1_ArchValidation ==
    (pc # "parse_arguments" /\ args.platform \in BuildPlatforms) =>
        LET all_valid == \A k \in 1..Len(args.archs) :
                            args.archs[k] \in Range(valid_archs[args.platform])
        IN /\ Positions("validate_archs") # {}
           /\ Validation.ok <=> all_valid
           /\ Validation.ok => pc # "exited" \/ Len(calls) > 1
           /\ ~all_valid =>
                /\ pc = "exited"
                /\ exit_code \notin {0, NoExit}
                /\ \A k \in 1..Len(calls) : calls[k].op \notin ExternalOps

\* a list whose second name is the invalid one has been rejected
C1_Witness ==
    /\ args.platform = "mac"
    /\ args.archs = <<"x86_64", "x64">>
    /\ pc = "exited"
    /\ exit_code = 1
    /\ calls = <<Ev("validate_archs", "mac", "x64", "", FALSE)>>

\* C2: the exit code is zero only when no external tool of the run exited
\* non-zero (git, git-sync-deps, gn, ninja, lipo, libtool, xcodebuild).
C2_ExitCode ==
    exit_code = 0 =>
        \A k \in 1..Len(calls) : calls[k].op \in ExternalOps => calls[k].ok

\* C3: a gn gen or ninja that exits non-zero is the last thing the run does:
\* the process has exited with a non-zero code and no step follows it.
C3_FatalBuildFailure ==
    \A k \in Positions("gn") \cup Positions("ninja") :
        ~calls[k].ok =>
            /\ k = Len(calls)
            /\ pc = "exited"
            /\ exit_code \notin {0, NoExit}

\* gn gen has failed for the second architecture of a run
C3_Witness ==
    /\ pc = "exited"
    /\ Len(calls) > 0
    /\ calls[Len(calls)].op = "gn"
    /\ ~calls[Len(calls)].ok
    /\ calls[Len(calls)].arch = "arm64"
    /\ Positions("move_libs") # {}

\* the libraries move_libs warned about, per platform
Missing(plat) ==
    { calls[k].lib : k \in { j \in Positions("warning") : calls[j].platform = plat } }

\* C4: a library that move_libs found missing is skipped by every later step:
\* neither lipo nor libtool is started on it.
C4_MissingArtifactsBenign ==
    /\ \A k \in Positions("lipo") : calls[k].lib \notin Missing("mac")
    /\ \A k \in Positions("libtool") :
          Range(calls[k].inputs) \cap Missing(calls[k].platform) = {}

\* the lipo calls of the run, in order
Lipos == SelectSeq(calls, LAMBDA e : e.op = "lipo")

\* create_universal_binary ran and no lipo failed
UniversalCompleted ==
    /\ Positions("create_universal_binary") # {}
    /\ \A k \in Positions("lipo") : calls[k].ok

\* C5: lipo runs at most once per library, in the order of the mac list, each
\* time on the x86_64 and arm64 copies with the architecture-less directory as
\* destination; when the step has completed, lipo has run exactly once per
\* library, both architecture folders are gone and every library of the list
\* is in the architecture-less directory and nowhere else under that
\* configuration.
C5_UniversalBinary ==
    /\ Len(Lipos) <= Len(LIBS["mac"])
    /\ \A k \in 1..Len(Lipos) :
          /\ Lipos[k].lib = LIBS["mac"][k]
          /\ Lipos[k].inputs = <<"x86_64", "arm64">>
          /\ Lipos[k].platform = "mac"
          /\ Lipos[k].arch = ""
    /\ UniversalCompleted =>
          /\ Len(Lipos) = Len(LIBS["mac"])
          /\ <<"mac", config, "x86_64">> \notin lib_dirs
          /\ <<"mac", config, "arm64">> \notin lib_dirs
          /\ \A f \in lib_files : f[1] = "mac" /\ f[2] = config => f[3] = ""
          /\ \A lib \in Range(LIBS["mac"]) : <<"mac", config, "", lib>> \in lib_files

\* a mac run with -archs x86_64,arm64 is through the universal-binary step
C5_Witness ==
    /\ args.platform = "mac"
    /\ args.archs = <<"x86_64", "arm64">>
    /\ UniversalCompleted
    /\ pc = "package_headers"

\* the mac architectures collected in the run
MacBuilt ==
    { calls[k].arch : k \in { j \in Positions("move_libs") : calls[j].platform = "mac" } }

\* C6: a completed run has created the universal binary exactly when it built
\* both x86_64 and arm64 for mac.
C6_UniversalTrigger ==
    pc = "done" =>
        (Positions("create_universal_binary") # {}
            <=> {"x86_64", "arm64"} \subseteq MacBuilt)

\* the per-architecture steps and their processes, in the order of the log
LoopOps == <<"generate_gn_args", "gn", "build_skia", "ninja", "move_libs">>

BuildSteps == SelectSeq(calls, LAMBDA e : e.op \in Range(LoopOps))

\* the architectures collected for the platform being built, in order
Collected ==
    LET moves == SelectSeq(calls, LAMBDA e : e.op = "move_libs" /\ e.platform = platform)
    IN [k \in 1..Len(moves) |-> moves[k].arch]

\* C7: setup_skia_repo runs at most once, and once in a completed run, before
\* any generate_gn_args; the per-architecture steps come in rounds of
\* generate_gn_args, gn, ninja, move_libs on one architecture, a round ending
\* before the next begins, over the architecture list in order;
\* package_headers runs at most once, and once in a completed run, after the
\* collection of the last architecture.
C7_PipelineOrder ==
    LET setups   == Positions("setup_skia_repo")
        packages == Positions("package_headers")
        steps    == BuildSteps
        moved    == Collected
    IN /\ Cardinality(setups) <= 1
       /\ Cardinality(packages) <= 1
       /\ pc = "done" => Cardinality(setups) = 1 /\ Cardinality(packages) = 1
       /\ \A k \in Positions("generate_gn_args") \cup Positions("gn") :
             \E j \in setups : j < k
       /\ \A k \in 1..Len(steps) :
             LET first == k - ((k - 1) % Len(LoopOps))
             IN /\ steps[k].op = LoopOps[k - first + 1]
                /\ steps[k].arch = steps[first].arch
                /\ steps[k].platform = steps[first].platform
       /\ Len(moved) <= Len(archs)
       /\ platform # None => moved = SubSeq(archs, 1, Len(moved))
       /\ \A k \in packages :
             /\ \A j \in Positions("move_libs") : j < k
             /\ moved = archs

\* a run over two architectures has completed
C7_Witness ==
    /\ pc = "done"
    /\ ~xcframework
    /\ Len(archs) = 2
    /\ Cardinality(Positions("move_libs")) = 2

\* the flag text of a call without the per-platform part at its end
ConfigPart(c) ==
    SubSeq(c.text, 1,
           Len(c.text) - Len(PlatformArgs(c.platform, c.config, c.arch, c.is_arm64)))

\* C8 as claimed: apart from the per-platform part, a Debug text holds only
\* is_debug = true; a Release text holds the platform table, the release
\* table, is_debug = false and is_official_build = true, in that order.
C8_Original ==
    \A k \in 1..Len(gn_calls) :
        LET c == gn_calls[k]
        IN IF c.config = "Debug"
           THEN ConfigPart(c) = << <<"is_debug", "true">> >>
           ELSE \E n \in 0..Len(c.text) :
                   SubSeq(ConfigPart(c), n + 1, Len(ConfigPart(c))) =
                       PLATFORM_GN_ARGS[c.platform] \o RELEASE_GN_ARGS
                          \o << <<"is_debug", "false">>, <<"is_official_build", "true">> >>

\* C8, amended: every text starts with the basic table (cc, cxx).  A Debug text
\* continues with is_debug = true alone and holds no entry of the platform
\* tables or of the release table; a Release text continues with the platform
\* table, the release table, is_debug = false and is_official_build = true,
\* in that order.  The per-platform part follows.
C8_FlagSynthesis ==
    \A k \in 1..Len(gn_calls) :
        LET c == gn_calls[k]
        IN IF c.config = "Debug"
           THEN /\ ConfigPart(c) = BASIC_GN_ARGS \o << <<"is_debug", "true">> >>
                /\ \A p \in BuildPlatforms :
                      Range(c.text) \cap Range(PLATFORM_GN_ARGS[p]) = {}
                /\ Range(c.text) \cap Range(RELEASE_GN_ARGS) = {}
           ELSE ConfigPart(c) =
                    BASIC_GN_ARGS \o PLATFORM_GN_ARGS[c.platform] \o RELEASE_GN_ARGS
                       \o << <<"is_debug", "false">>, <<"is_official_build", "true">> >>

\* flag texts have been synthesized for Debug and for Release
C8_Witness ==
    /\ Len(gn_calls) = 2
    /\ gn_calls[1].config = "Debug"
    /\ gn_calls[1].platform = "win"
    /\ gn_calls[1].arch # gn_calls[2].arch

\* the values assigned to `key` in a flag text, in order
Assigned(text, key) ==
    LET hits == SelectSeq(text, LAMBDA a : a[1] = key)
    IN [k \in 1..Len(hits) |-> hits[k][2]]

\* C9: every flag text assigns target_cpu exactly once: on ios "arm64" for
\* arm64 and "x64" otherwise, on win "x86" for Win32, "arm64" for arm64 and
\* "x64" otherwise, on mac the architecture itself; on win the runtime
\* linkage flag is /MTd for Debug and /MT for Release.
C9_PlatformPostProcessing ==
    \A k \in 1..Len(gn_calls) :
        LET c   == gn_calls[k]
            cpu == Assigned(c.text, "target_cpu")
        IN /\ Len(cpu) = 1
           /\ c.platform = "ios" =>
                 cpu[1] = (IF c.arch = "arm64" THEN "arm64" ELSE "x64")
           /\ c.platform = "win" =>
                 /\ cpu[1] = (IF c.arch = "Win32" THEN "x86"
                              ELSE IF c.arch = "arm64" THEN "arm64" ELSE "x64")
                 /\ Assigned(c.text, "extra_cflags") =
                       << IF c.config = "Debug" THEN "[/MTd]" ELSE "[/MT]" >>
           /\ c.platform = "mac" => cpu[1] = c.arch

\* flag texts have been synthesized for ios x86_64 and then ios arm64
C9_Witness ==
    /\ Len(gn_calls) = 2
    /\ gn_calls[1].platform = "ios"
    /\ gn_calls[1].arch = "x86_64"
    /\ gn_calls[2].arch = "arm64"
    /\ gn_calls[2].config = "Release"

\* the flag text of the same call on a host that is not ARM64
ReferenceText(c) == gn_args(c.platform, c.config, c.arch, FALSE)

\* two calls of one run with the same platform, architecture and configuration
\* have the same flag text
SameInputsSameText ==
    \A j, k \in 1..Len(gn_calls) :
        (/\ gn_calls[j].platform = gn_calls[k].platform
         /\ gn_calls[j].arch = gn_calls[k].arch
         /\ gn_calls[j].config = gn_calls[k].config)
            => gn_calls[j].text = gn_calls[k].text

\* C10 as claimed: the flag text is decided by platform, architecture and
\* configuration alone, whatever the earlier calls and whatever the host.
C10_Original ==
    /\ SameInputsSameText
    /\ \A k \in 1..Len(gn_calls) : gn_calls[k].text = ReferenceText(gn_calls[k])

\* C10, amended: two calls with the same platform, architecture and
\* configuration on the same host yield the same flag text, whatever the
\* earlier calls; the text depends on the host only when the platform is win,
\* the architecture is not arm64 and the host is detected as ARM64.
C10_Deterministic ==
    /\ SameInputsSameText
    /\ \A k \in 1..Len(gn_calls) :
          gn_calls[k].text # ReferenceText(gn_calls[k]) =>
              /\ gn_calls[k].platform = "win"
              /\ gn_calls[k].arch # "arm64"
              /\ gn_calls[k].is_arm64

\* the same architecture has been synthesized twice on a host detected as
\* ARM64, where the text differs from that of other hosts
C10_Witness ==
    /\ Len(gn_calls) = 2
    /\ gn_calls[1].arch = "x64"
    /\ gn_calls[2].arch = "x64"
    /\ gn_calls[2].is_arm64
    /\ gn_calls[2].text # ReferenceText(gn_calls[2])

\* C11: the targets handed to ninja are the platform's library list, name by
\* name in the same order: on win each target is the library name without its
\* ".lib" suffix, on the other platforms the library name itself; move_libs
\* afterwards looks for the names of that list as they stand, suffix included.
C11_BuildTargets ==
    /\ \A k \in Positions("ninja") :
          LET e    == calls[k]
              libs == LIBS[e.platform]
          IN /\ Len(e.inputs) = Len(libs)
             /\ \A n \in 1..Len(libs) :
                   IF e.platform = "win"
                   THEN e.inputs[n] \o ".lib" = libs[n]
                   ELSE e.inputs[n] = libs[n]
    /\ \A k \in Positions("move_libs") :
          /\ calls[k].inputs = LIBS[calls[k].platform]
          /\ \E j \in Positions("ninja") :
                /\ j < k
                /\ calls[j].platform = calls[k].platform
                /\ calls[j].arch = calls[k].arch
    /\ \A f \in lib_files : f[4] \in Range(LIBS[f[1]]) \cup {"libSkia.a"}

\* a win architecture has been built and collected
C11_Witness ==
    /\ platform = "win"
    /\ Positions("move_libs") # {}
    /\ <<"win", config, archs[1], "skia.lib">> \in lib_files

\* C12: no file below BASE_DIR/include has a directory named android
\* (the deny list) anywhere on its path, whichever allow-listed directory it
\* comes from and however deep the android directory lies.
C12_DenyListPrecedence ==
    \A f \in include_files :
        \A k \in 1..(Len(f) - 1) : f[k] # "android"

\* package_headers has copied a header of include/ from a checkout that also
\* holds a header below include/gpu/android
C12_Witness ==
    /\ pc # "package_headers"
    /\ <<"include", "gpu", "android", "GrAHardwareBuffer.h">> \in src_tree
    /\ <<"include", "core", "SkCanvas.h">> \in include_files

\* C13: once gn_args.txt is written, every architecture that gn gen was run
\* for has a section in it, and the flag text of that section is the flag
\* text that was passed to gn gen for that architecture.
C13_SummaryFidelity ==
    summary.written =>
        \A k \in 1..Len(gn_calls) :
            \E n \in 1..Len(summary.sections) :
                /\ summary.sections[n].arch = gn_calls[k].arch
                /\ summary.sections[n].text = gn_calls[k].text

\* C14: once parse_arguments has returned, no step of run() changes the
\* platform, the configuration, the architecture list or the xcframework flag
\* of the request.
C14_RequestImmutable ==
    [][pc # "parse_arguments" =>
          /\ platform' = platform
          /\ config' = config
          /\ archs' = archs
          /\ xcframework' = xcframework]_vars

\* C15: the request linux, Release, -archs x64 is accepted by parse_arguments;
\* when its run has completed there is one OutputTree, one move_libs pass
\* whose destination is linux-gpu/lib/Release/x64, and a summary with a
\* section for x64.
C15_LinuxGpuScenario ==
    (/\ args.platform = "linux"
     /\ args.config = "Release"
     /\ args.archs = <<"x64">>
     /\ pc # "parse_arguments") =>
        /\ Positions("validate_archs") # {}
        /\ Validation.ok
        /\ pc = "done" =>
              /\ Cardinality(tmp_dirs) = 1
              /\ Cardinality(Positions("move_libs")) = 1
              /\ \A k \in Positions("move_libs") :
                    calls[k].dest = <<"linux-gpu", "Release", "x64">>
              /\ summary.written
              /\ [n \in 1..Len(summary.sections) |-> summary.sections[n].arch] = <<"x64">>

\* C16: a move_libs step puts every library of the platform's list that is in
\* the architecture's OutputTree into <platform>/lib/<config>/<arch>, the
\* architecture segment left out for wasm and for "universal" only, and puts
\* no file anywhere else.
C16_CollectionDestination ==
    [][pc = "move_libs" =>
          LET arch  == archs[i]
              tree  == platform \o "_" \o config \o "_" \o arch
              seg   == IF platform = "wasm" \/ arch = "universal" THEN "" ELSE arch
              built == { lib \in Range(LIBS[platform]) : <<tree, lib>> \in tmp_files }
          IN /\ \A lib \in built : <<platform, config, seg, lib>> \in lib_files'
             /\ (lib_files' \ lib_files) \subseteq
                    { <<platform, config, seg, lib>> : lib \in built }]_vars

\* wasm libraries have been collected without an architecture segment, one
\* library being absent from the OutputTree
C16_Witness ==
    /\ platform = "wasm"
    /\ <<"wasm", config, "", "libskia.a">> \in lib_files
    /\ Positions("warning") # {}
    /\ pc = "package_headers"

\* C17: gn gen, ninja and move_libs of one architecture work in one and the
\* same OutputTree; the steps of two different architectures (or of the same
\* architecture name on two platforms) work in different OutputTrees, and
\* their move_libs write to different library directories.
C17_NoPathOverlap ==
    LET steps == Positions("gn") \cup Positions("ninja") \cup Positions("move_libs")
        moves == Positions("move_libs")
        same(j, k) == /\ calls[j].platform = calls[k].platform
                      /\ calls[j].arch = calls[k].arch
    IN /\ \A j, k \in steps :
             /\ calls[j].dir # ""
             /\ same(j, k) <=> calls[j].dir = calls[k].dir
       /\ \A j, k \in moves : ~same(j, k) => calls[j].dest # calls[k].dest

\* two win architectures have been built and collected
C17_Witness ==
    /\ platform = "win"
    /\ archs = <<"x64", "Win32">>
    /\ Cardinality(Positions("ninja")) = 2
    /\ pc = "package_headers"

\* C18: the architecture of every generate_gn_args, build_skia and move_libs
\* call, and of the gn and ninja processes they start, is in the valid set of
\* the platform the call builds for and is not "universal".
C18_ArchValidAtBuild ==
    \A k \in 1..Len(calls) :
        calls[k].op \in Range(LoopOps) =>
            /\ calls[k].arch \in Range(valid_archs[calls[k].platform])
            /\ calls[k].arch # "universal"

\* an xcframework run has built and collected its ios architectures
C18_Witness ==
    /\ xcframework
    /\ platform = "ios"
    /\ pc = "package_headers"
    /\ \E k \in Positions("move_libs") :
          calls[k].platform = "ios" /\ calls[k].arch = "arm64"

\* C19: a combine_libraries step starts libtool on exactly the libraries of
\* the platform's list that exist in the library directory, in list order,
\* with libSkia.a in that directory as output and nothing else written; when
\* none exists it starts no process, writes nothing, warns, and the run goes
\* on.
C19_LibraryCombination ==
    [][pc = "combine_libraries" =>
          LET arch    == IF platform = "mac" THEN "universal" ELSE archs[i]
              seg     == IF platform = "mac" THEN "" ELSE arch
              present == SelectSeq(LIBS[platform],
                            LAMBDA lib : <<platform, config, seg, lib>> \in lib_files)
              new     == SubSeq(calls', Len(calls) + 1, Len(calls'))
              tools   == SelectSeq(new, LAMBDA e : e.op \in ExternalOps)
              out     == <<platform, config, seg, "libSkia.a">>
          IN IF present # <<>>
             THEN /\ Len(tools) = 1
                  /\ tools[1].op = "libtool"
                  /\ tools[1].inputs = present
                  /\ tools[1].lib = "libSkia.a"
                  /\ tools[1].ok => out \in lib_files'
                  /\ (lib_files' \ lib_files) \subseteq {out}
             ELSE /\ tools = <<>>
                  /\ \E n \in 1..Len(new) : new[n].op = "warning"
                  /\ lib_files' = lib_files
                  /\ pc' # "exited"
                  /\ exit_code' = exit_code]_vars

\* combine_libraries has found no library for an ios architecture and the run
\* has gone on to the end of the loop
C19_Witness ==
    /\ xcframework
    /\ pc = "package_headers"
    /\ \E k \in Positions("warning") :
          calls[k].lib = "libSkia.a" /\ calls[k].platform = "ios"
    /\ \E k \in Positions("libtool") : calls[k].platform = "mac" /\ calls[k].ok

\* C20: a package_headers step leaves below BASE_DIR/include exactly the
\* files of the checkout whose name ends in ".h", that lie below an
\* allow-listed directory and have no directory named android on their path,
\* each under the path it has below the checkout's root; the checkout itself
\* is left as it was.
C20_FilteredMirror ==
    [][pc = "package_headers" =>
          /\ include_files' \ include_files =
                { f \in src_tree :
                    /\ endswith(f[Len(f)], ".h")
                    /\ \E n \in 1..Len(PACKAGE_DIRS) :
                          /\ Len(PACKAGE_DIRS[n]) < Len(f)
                          /\ SubSeq(f, 1, Len(PACKAGE_DIRS[n])) = PACKAGE_DIRS[n]
                    /\ \A k \in 1..(Len(f) - 1) : f[k] # "android" }
          /\ include_files \subseteq include_files'
          /\ src_tree' = src_tree]_vars

\* package_headers has copied one header out of a checkout of three files
C20_Witness ==
    /\ pc = "write_gn_args_summary"
    /\ Cardinality(src_tree) = 3
    /\ <<"include", "core", "SkTypes.hpp">> \in src_tree
    /\ include_files = {<<"modules", "skottie", "include", "Skottie.h">>}

\* C21: once cleanup() has run after a finished run(), no OutputTree that the
\* run created is left.
C21_CleanupCoverage ==
    pc = "cleaned" => tmp_dirs = {}

\* the place of a step in run(), and how far a state is along run(): the
\* platform pass, the index in the architecture list, the place of the step
StageOrder ==
    [parse_arguments |-> 0, setup_depot_tools |-> 1, setup_python3_on_windows |-> 2,
     setup_skia_repo |-> 3, modify_deps |-> 4, sync_deps |-> 5, select_archs |-> 6,
     generate_gn_args |-> 7, build_skia |-> 8, move_libs |-> 9,
     create_universal_binary |-> 10, combine_libraries |-> 11, switch_to_ios |-> 12,
     package_headers |-> 13, create_xcframework |-> 14, write_gn_args_summary |-> 15,
     completed |-> 16, done |-> 17, exited |-> 17, cleaned |-> 18]

Progress ==
    (IF xcframework /\ platform = "ios" THEN 10000 ELSE 0) + 100 * i + StageOrder[pc]

\* the gn gen and ninja processes started for the platform being built
Started(op) ==
    Cardinality({ k \in Positions(op) : calls[k].platform = platform })

\* C22: run() ends, completed or exited; every step takes it forward along
\* the pipeline (to a later platform pass, a later entry of the architecture
\* list or a later stage), never back and never to the same place again, and
\* nothing follows an exit; gn gen and ninja are started at most once per entry
\* of the architecture list in a platform pass, and once per entry in a
\* completed pass.
C22_NoRetryTermination ==
    /\ <>(pc \in {"done", "exited", "cleaned"})
    /\ [][/\ Progress' > Progress
          /\ pc # "exited"
          /\ Len(calls') - Len(calls) \in 0..(Len(LIBS["mac"]) + 2)
          /\ SubSeq(calls', 1, Len(calls)) = calls]_vars
    /\ [](platform # None =>
            /\ Started("ninja") <= Started("gn")
            /\ Started("gn") <= i
            /\ i <= Len(archs)
            /\ pc \in {"package_headers", "done"} =>
                  /\ Started("gn") = Len(archs)
                  /\ Started("ninja") = Len(archs))

\* a run over two architectures has come to its end after one gn gen and one
\* ninja for each
C22_Witness ==
    /\ pc = "done"
    /\ platform = "ios"
    /\ ~xcframework
    /\ Len(archs) = 2
    /\ Started("gn") = 2
    /\ Started("ninja") = 2

\* the steps of run() that build, collect, merge and package, in the order
\* in which they were made, each with its platform and architecture
StepOps ==
    {"gn", "ninja", "move_libs", "create_universal_binary", "combine_libraries",
     "package_headers", "create_xcframework"}

StepLog ==
    LET steps == SelectSeq(calls, LAMBDA e : e.op \in StepOps)
    IN [k \in 1..Len(steps) |-> <<steps[k].op, steps[k].platform, steps[k].arch>>]

\* build and collect one architecture
BuildAndCollect(plat, arch) ==
    << <<"gn", plat, arch>>, <<"ninja", plat, arch>>, <<"move_libs", plat, arch>> >>

\* what an xcframework run does up to the framework assembly
XcframeworkSequence ==
    BuildAndCollect("mac", "x86_64") \o BuildAndCollect("mac", "arm64")
      \o << <<"create_universal_binary", "mac", "">>,
            <<"combine_libraries", "mac", "universal">> >>
      \o BuildAndCollect("ios", "x86_64") \o << <<"combine_libraries", "ios", "x86_64">> >>
      \o BuildAndCollect("ios", "arm64") \o << <<"combine_libraries", "ios", "arm64">> >>
      \o << <<"package_headers", "ios", "">>, <<"create_xcframework", "", "">> >>

\* C23: whatever -config and -archs say, xcodebuild is started only in an
\* xcframework run, only once, and only after exactly this: mac x86_64 and
\* arm64 built in Release and collected, the mac universal binary, the mac
\* libraries combined, ios x86_64 and arm64 each built in Release, collected
\* and combined, the headers packaged; a completed xcframework run has
\* started it once.
C23_XcframeworkSequence ==
    /\ Positions("xcodebuild") # {} =>
          /\ args.platform = "xcframework"
          /\ xcframework
          /\ Cardinality(Positions("xcodebuild")) = 1
          /\ StepLog = XcframeworkSequence
          /\ \A k \in Positions("xcodebuild") :
                \A j \in 1..Len(calls) : calls[j].op \in StepOps => j < k
          /\ \A k \in Positions("gn") \cup Positions("ninja") :
                /\ calls[k].ok
                /\ calls[k].dir = output_dir(calls[k].platform, "Release", calls[k].arch)
          /\ \A k \in 1..Len(gn_calls) :
                /\ gn_calls[k].config = "Release"
                /\ gn_calls[k].text =
                      gn_args(gn_calls[k].platform, "Release", gn_calls[k].arch,
                              gn_calls[k].is_arm64)
    /\ (pc \in {"done", "cleaned"} /\ args.platform = "xcframework") =>
          Positions("xcodebuild") # {}

\* an xcframework run asked for Debug and for one architecture has finished
\* and has started xcodebuild
C23_Witness ==
    /\ pc = "done"
    /\ args.platform = "xcframework"
    /\ args.config = "Debug"
    /\ args.archs # <<>>
    /\ Positions("xcodebuild") # {}
    /\ StepLog = XcframeworkSequence

\* the entries of the log of file steps
PatchLog == { dawn.log[k] : k \in 1..Len(dawn.log) }

\* C24: once apply_patches has been applied, applying it again leaves every
\* one of the four files with the content it had after the first application,
\* and a file whose content carries its marker is not written.
C24_PatchIdempotence ==
    /\ dawn.pass = "second" => dawn.files = dawn.after_first
    /\ \A e \in PatchLog :
          /\ e.pass = "second" => e.after = e.before
          /\ contains(e.before, Marker(e.file)) => ~e.written /\ e.after = e.before

\* both applications are over; the first changed a file and the second left
\* that file, which then carried its marker, unwritten
C24_Witness ==
    /\ dawn.pc = "finished"
    /\ \E e1, e2 \in PatchLog :
          /\ e1.pass = "first" /\ e2.pass = "second" /\ e1.file = e2.file
          /\ e1.file = "BUILD.gn"
          /\ e1.written /\ e1.after # e1.before
          /\ contains(e2.before, Marker(e2.file)) /\ ~e2.written
    /\ \E e1, e2 \in PatchLog :
          /\ e1.pass = "first" /\ e2.pass = "second" /\ e1.file = e2.file
          /\ e1.written /\ e2.written /\ e1.after # e1.before

\* C25: a file that apply_patches reports as patched, in a call that returns
\* True, holds its marker afterwards, each text looked for was there and each
\* text to put in is there afterwards.
C25_PatchSuccessReporting ==
    \A e \in PatchLog :
        (/\ e.reported = "Patched"
         /\ \E k \in 1..Len(dawn.returned) : dawn.returned[k]) =>
            /\ contains(e.after, Marker(e.file))
            /\ \A k \in 1..Len(Replacements(e.file)) :
                  /\ contains(e.before, Replacements(e.file)[k][1])
                  /\ contains(e.after, Replacements(e.file)[k][2])

====
